---- MODULE Spec2Model ----
(***************************************************************************)
(* Model of delfos_mcp.py: the tool handlers of the Delfos MCP server.     *)
(* Every handler is a sequence of driver calls (connect, cursor, execute,  *)
(* fetch, commit, close); each call is one step that either succeeds or    *)
(* raises, and a raised exception leaves the handler at once because no    *)
(* handler has a try/except/finally.  Text is a sequence of one-character  *)
(* strings, so that interpolation, query parsing and URL-decoding are      *)
(* computed and not assumed.                                               *)
(***************************************************************************)
EXTENDS Integers, Sequences, FiniteSets, TLC

\* ------------------------------------------------------------------ bounds
MaxRows == 2         \* longest results list of insert_agent_output_batch
MaxClock == 1        \* ticks of the wall clock during a run
MaxRunIdLen == 3     \* longest run_id argument of generate_powerbi_url

\* Invocation 1 runs alone in Spec; invocations 1 and 2 interleave in SpecConc,
\* at every driver call (the coarsest scheduling, one handler at a time on the
\* event loop, is among these interleavings).
Invocations == {1, 2}

\* ------------------------------------------------------------------ text
T == <<"T">>
E == <<"E">>
M == <<"M">>
Inj == <<"T", "'", "-", "-">>
agent_output_table == <<"a", "o">>
c == <<"c">>
z == <<"z">>
BadCol == <<"c", "]">>

TableNames == {T, E, M, Inj}
ColumnNames == {c, z, BadCol}

None == [none |-> TRUE]

\* ------------------------------------------------------------------ state
VARIABLES
    pc,            \* position of each invocation in its handler
    op,            \* the tool each invocation runs
    args,          \* its arguments
    conn,          \* local conn: index into conns, 0 before get_db_connection
    cursor,        \* local cursor: result set of the last execute
    fetched,       \* local results/columns/tables/info/keys/values
    run_id,        \* local run_id of insert_agent_output_batch
    created_at,    \* local created_at
    rows_inserted, \* local rows_inserted
    ret,           \* what the invocation gave its caller
    failure,       \* the driver call of the invocation that raised, if any
    executed,      \* statements the invocation passed to cursor.execute
    commits,       \* number of conn.commit() calls of the invocation
    conns,         \* every connection pyodbc.connect has returned
    agent_output,  \* committed rows of [dbo].[agent_output]
    catalog,       \* base tables of the database
    usedIds,       \* values uuid.uuid4() has returned
    now            \* the wall clock

vars == <<pc, op, args, conn, cursor, fetched, run_id, created_at, rows_inserted,
          ret, failure, executed, commits, conns, agent_output, catalog, usedIds, now>>

locals == <<run_id, created_at, rows_inserted>>
out == <<ret, failure>>
world == <<agent_output, catalog, usedIds, now>>

\* ------------------------------------------------------------------ database
SalesLT == {T, E}

Catalogs == {{}, {T, E, agent_output_table}}

\* Result of a statement: accepted or rejected, whether it yields a result
\* set, and the rows of that set.
Accepted(rs) == [status |-> "ok", query |-> TRUE, rows |-> rs]
Rejected == [status |-> "rejected", query |-> FALSE, rows |-> <<>>]
NoResultSet == [status |-> "ok", query |-> FALSE, rows |-> <<>>]

\* the TABLE_NAME a catalog-view predicate  TABLE_NAME = '<name>'  selects,
\* or <<>> when the text is no longer one string literal
LiteralTable(name) ==
    IF \A k \in 1..Len(name) : name[k] # "'" THEN name
    ELSE IF name = Inj THEN T
    ELSE <<>>

ColumnsOf(cat, t) ==
    IF t \in cat \cap SalesLT THEN <<[COLUMN_NAME |-> c, DATA_TYPE |-> "int"]>> ELSE <<>>

KeysOf(cat, t) ==
    IF t \in cat /\ t = T THEN <<[COLUMN_NAME |-> c]>> ELSE <<>>

RowsOf(t) == IF t = T THEN <<"1", "2">> ELSE <<>>

TableList(cat) ==
    IF cat = {} THEN <<>>
    ELSE <<[TABLE_NAME |-> T], [TABLE_NAME |-> E], [TABLE_NAME |-> agent_output_table]>>

Relationships(cat) ==
    IF cat = {} THEN <<>>
    ELSE <<[ForeignKey |-> "fk", ParentTable |-> E, ParentColumn |-> c,
            ReferencedTable |-> T, ReferencedColumn |-> c]>>

\* The database's answer to a statement.
DbResult(cat, stmt) ==
    CASE stmt.sql = "query" ->
            CASE stmt.text = "SELECT_ROWS" -> Accepted(<<"1", "2">>)
              [] stmt.text = "SELECT_EMPTY" -> Accepted(<<>>)
              [] stmt.text = "NON_QUERY" -> NoResultSet
              [] OTHER -> Rejected
      [] stmt.sql = "columns" ->
            IF LiteralTable(stmt.table) = <<>> THEN Rejected
            ELSE Accepted(ColumnsOf(cat, LiteralTable(stmt.table)))
      [] stmt.sql = "tables" -> Accepted(TableList(cat))
      [] stmt.sql = "dbinfo" -> Accepted(<<[DatabaseName |-> "delfos", Version |-> "12"]>>)
      [] stmt.sql = "count" ->
            IF stmt.table \in cat \cap SalesLT
            THEN Accepted(<<[TotalRows |-> Len(RowsOf(stmt.table))]>>)
            ELSE Rejected
      [] stmt.sql = "keys" ->
            IF LiteralTable(stmt.table) = <<>> THEN Rejected
            ELSE Accepted(KeysOf(cat, LiteralTable(stmt.table)))
      [] stmt.sql = "distinct" ->
            IF stmt.table \in cat \cap SalesLT /\ stmt.column = c
            THEN Accepted(RowsOf(stmt.table))
            ELSE Rejected
      [] stmt.sql = "relationships" -> Accepted(Relationships(cat))
      [] stmt.sql = "insert" ->
            IF agent_output_table \in cat THEN NoResultSet ELSE Rejected
      [] OTHER -> Rejected

\* ------------------------------------------------------------------ inputs
Queries == {"SELECT_ROWS", "SELECT_EMPTY", "NON_QUERY", "SYNTAX_ERROR"}

\* result rows of the insert tool: mappings with optional keys
ResultRows == {[x_value |-> "US", y_value |-> "1.5", category |-> "US"], [x_value |-> "CA"]}

RECURSIVE SeqsUpTo(_, _)
SeqsUpTo(S, n) ==
    IF n = 0 THEN {<<>>}
    ELSE LET shorter == SeqsUpTo(S, n - 1)
         IN shorter \cup {Append(s, x) : s \in {t \in shorter : Len(t) = n - 1}, x \in S}

VisualHints == {"linea", "barras", "barras_agrupadas", "pie", "bar", "line", "table"}

UrlChars == {"a", " ", "&", "%", "4", "1"}

ReadOps == {"execute_sql_query", "get_table_schema", "list_tables", "get_database_info",
            "get_table_row_count", "get_primary_keys", "get_distinct_values",
            "get_table_relationships"}

QueryArgs == {[query |-> q] : q \in Queries}
TableArgs == {[table_name |-> t] : t \in TableNames}
DistinctArgs == {[table_name |-> t, column_name |-> col] : t \in TableNames, col \in ColumnNames}
InsertArgs ==
    {[user_id |-> "u", question |-> "q", results |-> rs, metric_name |-> "m",
      visual_hint |-> "bar"] : rs \in SeqsUpTo(ResultRows, MaxRows)}
UrlArgs == {[run_id |-> r, visual_hint |-> v] : r \in SeqsUpTo(UrlChars, MaxRunIdLen), v \in VisualHints}
NoArgs == {[none |-> TRUE]}

ArgsOf(o) ==
    CASE o = "execute_sql_query" -> QueryArgs
      [] o \in {"get_table_schema", "get_table_row_count", "get_primary_keys"} -> TableArgs
      [] o = "get_distinct_values" -> DistinctArgs
      [] o = "insert_agent_output_batch" -> InsertArgs
      [] o = "generate_powerbi_url" -> UrlArgs
      [] OTHER -> NoArgs

\* the identifiers uuid.uuid4() can return
RunIds == {<<"a", k>> : k \in {"1", "2", "3"}}

\* ------------------------------------------------------------------ handlers
\* dict.get(key): the value, or None for a missing key
Get(row, key) == IF key \in DOMAIN row THEN row[key] ELSE None

\* the statement a handler passes to cursor.execute
Statement(o, a) ==
    CASE o = "execute_sql_query" -> [sql |-> "query", text |-> a.query]
      [] o = "get_table_schema" -> [sql |-> "columns", table |-> a.table_name]
      [] o = "list_tables" -> [sql |-> "tables"]
      [] o = "get_database_info" -> [sql |-> "dbinfo"]
      [] o = "get_table_row_count" -> [sql |-> "count", table |-> a.table_name]
      [] o = "get_primary_keys" -> [sql |-> "keys", table |-> a.table_name]
      [] o = "get_distinct_values" ->
            [sql |-> "distinct", table |-> a.table_name, column |-> a.column_name]
      [] OTHER -> [sql |-> "relationships"]

\* handlers that read one row with fetchone; the others use fetchall
UsesFetchone(o) == o \in {"get_database_info", "get_table_row_count"}

Joined(sep, items) == [text |-> "joined", sep |-> sep, items |-> items]

\* the none-found string of a handler
NoneFound(o, a) ==
    CASE o = "execute_sql_query" -> [text |-> "No results found."]
      [] o = "get_table_schema" ->
            [text |-> "No schema found for table", table |-> a.table_name]
      [] o = "list_tables" -> [text |-> "No tables found in the database."]
      [] o = "get_primary_keys" ->
            [text |-> "No primary keys found for table", table |-> a.table_name]
      [] o = "get_distinct_values" ->
            [text |-> "No distinct values found in column", column |-> a.column_name,
             table |-> a.table_name]
      [] OTHER -> [text |-> "No foreign key relationships found in the database."]

\* The value the handler builds after conn.close(), or AttributeError when it
\* reads a column of None.
Formatted(o, a, res) ==
    IF UsesFetchone(o)
    THEN IF res = None THEN [kind |-> "raise", error |-> "AttributeError"]
         ELSE IF o = "get_database_info"
              THEN [kind |-> "return",
                    value |-> [text |-> "Database Name/Version", name |-> res.DatabaseName,
                               version |-> res.Version]]
              ELSE [kind |-> "return",
                    value |-> [text |-> "Table has rows", table |-> a.table_name,
                               rows |-> res.TotalRows]]
    ELSE IF res = <<>> THEN [kind |-> "return", value |-> NoneFound(o, a)]
         ELSE [kind |-> "return",
               value |-> Joined(IF o = "get_primary_keys" THEN ", " ELSE "\n", res)]

Raised(err) == [kind |-> "raise", error |-> err]
NoReturn == [kind |-> "running"]

\* Variant: the handler catches the driver's exception and returns a string.
RaiseSwallowed(i, step, err) ==
    /\ pc' = [pc EXCEPT ![i] = "done"]
    /\ ret' = [ret EXCEPT ![i] = [kind |-> "return", value |-> [text |-> err]]]
    /\ failure' = [failure EXCEPT ![i] = step]

\* An exception of the driver: nothing catches it, so the handler ends here
\* and the caller gets the exception.
Raise(i, step, err) ==
    /\ pc' = [pc EXCEPT ![i] = "raised"]
    /\ ret' = [ret EXCEPT ![i] = Raised(err)]
    /\ failure' = [failure EXCEPT ![i] = step]

\* Variant: one module-level connection, opened by the first call and handed
\* to every later one.
get_db_connection_shared(i) ==
    /\ pc[i] = "connect"
    /\ \/ /\ conns' = IF conns = <<>>
                       THEN <<[open |-> TRUE, closes |-> 0, pending |-> <<>>, owner |-> i]>>
                       ELSE conns
          /\ conn' = [conn EXCEPT ![i] = 1]
          /\ pc' = [pc EXCEPT ![i] = "cursor"]
          /\ UNCHANGED out
       \/ /\ Raise(i, "connect", "OperationalError")
          /\ UNCHANGED <<conns, conn>>
    /\ UNCHANGED <<op, args, cursor, fetched, locals, executed, commits, world>>

\* get_db_connection(): a new connection, or the driver's error
get_db_connection(i) ==
    /\ pc[i] = "connect"
    /\ \/ /\ conns' = Append(conns, [open |-> TRUE, closes |-> 0, pending |-> <<>>,
                                     owner |-> i])
          /\ conn' = [conn EXCEPT ![i] = Len(conns) + 1]
          /\ pc' = [pc EXCEPT ![i] = "cursor"]
          /\ UNCHANGED out
       \/ /\ Raise(i, "connect", "OperationalError")
          /\ UNCHANGED <<conns, conn>>
    /\ UNCHANGED <<op, args, cursor, fetched, locals, executed, commits, world>>

\* cursor = conn.cursor()
conn_cursor(i) ==
    /\ pc[i] = "cursor"
    /\ \/ /\ pc' = [pc EXCEPT ![i] =
                       IF op[i] = "insert_agent_output_batch" THEN "uuid" ELSE "execute"]
          /\ UNCHANGED out
       \/ Raise(i, "cursor", "OperationalError")
    /\ UNCHANGED <<op, args, conn, cursor, fetched, locals, executed, commits, conns, world>>

\* cursor.execute(<statement>) of a reading handler
cursor_execute(i) ==
    /\ pc[i] = "execute"
    /\ LET stmt == Statement(op[i], args[i])
           res == DbResult(catalog, stmt)
       IN /\ executed' = [executed EXCEPT ![i] = Append(@, stmt)]
          /\ \/ /\ res.status = "ok"
                /\ cursor' = [cursor EXCEPT ![i] = res]
                /\ pc' = [pc EXCEPT ![i] = "fetch"]
                /\ UNCHANGED out
             \/ /\ Raise(i, "execute",
                         IF res.status = "ok" THEN "OperationalError" ELSE "ProgrammingError")
                /\ UNCHANGED cursor
    /\ UNCHANGED <<op, args, conn, fetched, locals, commits, conns, world>>

\* cursor.fetchall() / cursor.fetchone()
cursor_fetch(i) ==
    /\ pc[i] = "fetch"
    /\ \/ /\ cursor[i].query
          /\ fetched' = [fetched EXCEPT ![i] =
                            IF UsesFetchone(op[i])
                            THEN IF cursor[i].rows = <<>> THEN None ELSE Head(cursor[i].rows)
                            ELSE cursor[i].rows]
          /\ pc' = [pc EXCEPT ![i] = "cursor_close"]
          /\ UNCHANGED out
       \/ /\ Raise(i, "fetch",
                   IF cursor[i].query THEN "OperationalError" ELSE "ProgrammingError")
          /\ UNCHANGED fetched
    /\ UNCHANGED <<op, args, conn, cursor, locals, executed, commits, conns, world>>

\* cursor.close()
cursor_close(i) ==
    /\ pc[i] = "cursor_close"
    /\ pc' = [pc EXCEPT ![i] = "conn_close"]
    /\ UNCHANGED <<op, args, conn, cursor, fetched, locals, out, executed, commits, conns,
                   world>>

\* conn.close(): the connection ends and its open transaction is rolled back
conn_close(i) ==
    /\ pc[i] = "conn_close"
    /\ conns' = [conns EXCEPT ![conn[i]] =
                    [@ EXCEPT !.open = FALSE, !.closes = @ + 1, !.pending = <<>>]]
    /\ pc' = [pc EXCEPT ![i] = "return"]
    /\ UNCHANGED <<op, args, conn, cursor, fetched, locals, out, executed, commits, world>>

\* the statements after conn.close() of a reading handler
format_result(i) ==
    /\ pc[i] = "return"
    /\ op[i] \in ReadOps
    /\ UNCHANGED failure
    /\ ret' = [ret EXCEPT ![i] = Formatted(op[i], args[i], fetched[i])]
    /\ pc' = [pc EXCEPT ![i] = IF ret'[i].kind = "return" THEN "done" ELSE "raised"]
    /\ UNCHANGED <<op, args, conn, cursor, fetched, locals, executed, commits, conns, world>>

ReadHandler(i) ==
    \/ get_db_connection(i)
    \/ conn_cursor(i)
    \/ cursor_execute(i)
    \/ cursor_fetch(i)
    \/ cursor_close(i)
    \/ conn_close(i)
    \/ format_result(i)

\* uuid.uuid4(): a value no earlier call has returned
uuid4(i) ==
    /\ pc[i] = "uuid"
    /\ \E u \in RunIds \ usedIds :
          /\ run_id' = [run_id EXCEPT ![i] = u]
          /\ usedIds' = usedIds \cup {u}
    /\ pc' = [pc EXCEPT ![i] = "now"]
    /\ UNCHANGED <<op, args, conn, cursor, fetched, created_at, rows_inserted, out, executed,
                   commits, conns, agent_output, catalog, now>>

\* created_at = datetime.now()
datetime_now(i) ==
    /\ pc[i] = "now"
    /\ created_at' = [created_at EXCEPT ![i] = now]
    /\ rows_inserted' = [rows_inserted EXCEPT ![i] = 0]
    /\ pc' = [pc EXCEPT ![i] = IF args[i].results = <<>> THEN "commit" ELSE "loop"]
    /\ UNCHANGED <<op, args, conn, cursor, fetched, run_id, out, executed, commits, conns,
                   world>>

\* Variant: datetime.now() is read again for every row.
InsertParamsClockPerRow(a, row, rid, at) ==
    [run_id |-> rid, user_id |-> a.user_id, question |-> a.question,
     x_value |-> Get(row, "x_value"), y_value |-> Get(row, "y_value"),
     series |-> Get(row, "series"), category |-> Get(row, "category"),
     metric_name |-> a.metric_name, visual_hint |-> a.visual_hint, created_at |-> now]

\* the ten bound columns of one insert
InsertParams(a, row, rid, at) ==
    [run_id |-> rid, user_id |-> a.user_id, question |-> a.question,
     x_value |-> Get(row, "x_value"), y_value |-> Get(row, "y_value"),
     series |-> Get(row, "series"), category |-> Get(row, "category"),
     metric_name |-> a.metric_name, visual_hint |-> a.visual_hint, created_at |-> at]

\* Variant: the connection is in autocommit mode, every inserted row is
\* visible at once.
insert_row_autocommit(i) ==
    /\ pc[i] = "loop"
    /\ LET row == args[i].results[rows_inserted[i] + 1]
           params == [run_id |-> run_id[i], user_id |-> args[i].user_id,
                      question |-> args[i].question, x_value |-> Get(row, "x_value"),
                      y_value |-> Get(row, "y_value"), series |-> Get(row, "series"),
                      category |-> Get(row, "category"), metric_name |-> args[i].metric_name,
                      visual_hint |-> args[i].visual_hint, created_at |-> created_at[i]]
           stmt == [sql |-> "insert", params |-> params]
       IN /\ executed' = [executed EXCEPT ![i] = Append(@, stmt)]
          /\ \/ /\ DbResult(catalog, stmt).status = "ok"
                /\ agent_output' = Append(agent_output, params)
                /\ rows_inserted' = [rows_inserted EXCEPT ![i] = @ + 1]
                /\ pc' = [pc EXCEPT ![i] =
                             IF rows_inserted'[i] = Len(args[i].results)
                             THEN "commit" ELSE "loop"]
                /\ UNCHANGED out
             \/ /\ Raise(i, "execute", "IntegrityError")
                /\ UNCHANGED <<agent_output, rows_inserted>>
    /\ UNCHANGED <<op, args, conn, cursor, fetched, run_id, created_at, commits, conns,
                   catalog, usedIds, now>>

\* Variant: conn.commit() inside the loop, after every row.
insert_row_commit_each(i) ==
    /\ pc[i] = "loop"
    /\ LET row == args[i].results[rows_inserted[i] + 1]
           params == [run_id |-> run_id[i], user_id |-> args[i].user_id,
                      question |-> args[i].question, x_value |-> Get(row, "x_value"),
                      y_value |-> Get(row, "y_value"), series |-> Get(row, "series"),
                      category |-> Get(row, "category"), metric_name |-> args[i].metric_name,
                      visual_hint |-> args[i].visual_hint, created_at |-> created_at[i]]
           stmt == [sql |-> "insert", params |-> params]
       IN /\ executed' = [executed EXCEPT ![i] = Append(@, stmt)]
          /\ \/ /\ DbResult(catalog, stmt).status = "ok"
                /\ agent_output' = Append(agent_output, params)
                /\ commits' = [commits EXCEPT ![i] = @ + 1]
                /\ rows_inserted' = [rows_inserted EXCEPT ![i] = @ + 1]
                /\ pc' = [pc EXCEPT ![i] =
                             IF rows_inserted'[i] = Len(args[i].results)
                             THEN "cursor_close" ELSE "loop"]
                /\ UNCHANGED out
             \/ /\ Raise(i, "execute", "IntegrityError")
                /\ UNCHANGED <<agent_output, rows_inserted, commits>>
    /\ UNCHANGED <<op, args, conn, cursor, fetched, run_id, created_at, conns, catalog,
                   usedIds, now>>

\* one iteration of  for row in results: cursor.execute(query, (...)); rows_inserted += 1
\* The row joins the connection's open transaction (pyodbc.connect without
\* autocommit).
insert_row(i) ==
    /\ pc[i] = "loop"
    /\ LET row == args[i].results[rows_inserted[i] + 1]
           params == InsertParams(args[i], row, run_id[i], created_at[i])
           stmt == [sql |-> "insert", params |-> params]
       IN /\ executed' = [executed EXCEPT ![i] = Append(@, stmt)]
          /\ \/ /\ DbResult(catalog, stmt).status = "ok"
                /\ conns' = [conns EXCEPT ![conn[i]].pending = Append(@, params)]
                /\ rows_inserted' = [rows_inserted EXCEPT ![i] = @ + 1]
                /\ pc' = [pc EXCEPT ![i] =
                             IF rows_inserted'[i] = Len(args[i].results)
                             THEN "commit" ELSE "loop"]
                /\ UNCHANGED out
             \/ /\ Raise(i, "execute",
                         IF DbResult(catalog, stmt).status = "ok"
                         THEN "IntegrityError" ELSE "ProgrammingError")
                /\ UNCHANGED <<conns, rows_inserted>>
    /\ UNCHANGED <<op, args, conn, cursor, fetched, run_id, created_at, commits, world>>

\* conn.commit(): the open transaction becomes visible in agent_output
conn_commit(i) ==
    /\ pc[i] = "commit"
    /\ commits' = [commits EXCEPT ![i] = @ + 1]
    /\ \/ /\ agent_output' = agent_output \o conns[conn[i]].pending
          /\ conns' = [conns EXCEPT ![conn[i]].pending = <<>>]
          /\ pc' = [pc EXCEPT ![i] = "cursor_close"]
          /\ UNCHANGED out
       \/ /\ Raise(i, "commit", "OperationalError")
          /\ UNCHANGED <<agent_output, conns>>
    /\ UNCHANGED <<op, args, conn, cursor, fetched, locals, executed, catalog, usedIds, now>>

\* return f"Inserted {rows_inserted} rows successfully. run_id: {run_id}"
insert_return(i) ==
    /\ pc[i] = "return"
    /\ op[i] = "insert_agent_output_batch"
    /\ UNCHANGED failure
    /\ ret' = [ret EXCEPT ![i] =
                  [kind |-> "return",
                   value |-> [text |-> "Inserted rows successfully", count |-> rows_inserted[i],
                              run_id |-> run_id[i]]]]
    /\ pc' = [pc EXCEPT ![i] = "done"]
    /\ UNCHANGED <<op, args, conn, cursor, fetched, locals, executed, commits, conns, world>>

insert_agent_output_batch(i) ==
    /\ op[i] = "insert_agent_output_batch"
    /\ \/ get_db_connection(i)
       \/ conn_cursor(i)
       \/ uuid4(i)
       \/ datetime_now(i)
       \/ insert_row(i)
       \/ conn_commit(i)
       \/ cursor_close(i)
       \/ conn_close(i)
       \/ insert_return(i)

\* ------------------------------------------------------------------ URL composer
WORKSPACE_ID == <<"w">>
REPORT_ID == <<"r">>

\* page names of the report
Line == <<"L", "i", "n", "e">>
Bar == <<"B", "a", "r">>
StackedBar == <<"S", "t", "a", "c", "k", "e", "d", "B", "a", "r">>
PieChart == <<"P", "i", "e", "C", "h", "a", "r", "t">>
ReportSectionBarras ==
    <<"R", "e", "p", "o", "r", "t", "S", "e", "c", "t", "i", "o", "n", "B",
    "a", "r", "r", "a", "s">>

VISUAL_PAGE_MAP ==
    [k \in {"linea", "barras", "barras_agrupadas", "pie"} |->
        CASE k = "linea" -> Line
          [] k = "barras" -> Bar
          [] k = "barras_agrupadas" -> StackedBar
          [] OTHER -> PieChart]

\* Variant: an unknown visual_hint falls back to the bar page.
PageNameBarDefault(visual_hint) ==
    IF visual_hint \in DOMAIN VISUAL_PAGE_MAP THEN VISUAL_PAGE_MAP[visual_hint] ELSE Bar

\* VISUAL_PAGE_MAP.get(visual_hint, "ReportSectionBarras")
PageName(visual_hint) ==
    IF visual_hint \in DOMAIN VISUAL_PAGE_MAP THEN VISUAL_PAGE_MAP[visual_hint]
    ELSE ReportSectionBarras

\* the f-string of generate_powerbi_url
Url(rid, visual_hint) ==
    <<"h", "t", "t", "p", "s", ":", "/", "/", "a", "p", "p", ".", "p", "o",
      "w", "e", "r", "b", "i", ".", "c", "o", "m", "/", "g", "r", "o", "u",
      "p", "s", "/">> \o WORKSPACE_ID
    \o <<"/", "r", "e", "p", "o", "r", "t", "s", "/">> \o REPORT_ID
    \o <<"?", "p", "a", "g", "e", "N", "a", "m", "e", "=">> \o PageName(visual_hint)
    \o <<"&", "f", "i", "l", "t", "e", "r", "=", "a", "g", "e", "n", "t", "_",
      "o", "u", "t", "p", "u", "t", "/", "r", "u", "n", "_", "i", "d", "%",
      "2", "0", "e", "q", "%", "2", "0", "'">>
    \o rid \o <<"'">>

generate_powerbi_url(i) ==
    /\ pc[i] = "url"
    /\ op[i] = "generate_powerbi_url"
    /\ UNCHANGED failure
    /\ ret' = [ret EXCEPT ![i] =
                  [kind |-> "return", value |-> Url(args[i].run_id, args[i].visual_hint)]]
    /\ pc' = [pc EXCEPT ![i] = "done"]
    /\ UNCHANGED <<op, args, conn, cursor, fetched, locals, executed, commits, conns, world>>

\* ------------------------------------------------------------------ dispatch
execute_sql_query(i) == op[i] = "execute_sql_query" /\ ReadHandler(i)
get_table_schema(i) == op[i] = "get_table_schema" /\ ReadHandler(i)
list_tables(i) == op[i] = "list_tables" /\ ReadHandler(i)
get_database_info(i) == op[i] = "get_database_info" /\ ReadHandler(i)
get_table_row_count(i) == op[i] = "get_table_row_count" /\ ReadHandler(i)
get_primary_keys(i) == op[i] = "get_primary_keys" /\ ReadHandler(i)
get_distinct_values(i) == op[i] = "get_distinct_values" /\ ReadHandler(i)
get_table_relationships(i) == op[i] = "get_table_relationships" /\ ReadHandler(i)

Tools == ReadOps \cup {"insert_agent_output_batch", "generate_powerbi_url"}

\* the dispatcher calls tool o with arguments a
Invoke(i, o, a) ==
    /\ pc[i] = "idle"
    /\ op' = [op EXCEPT ![i] = o]
    /\ args' = [args EXCEPT ![i] = a]
    /\ pc' = [pc EXCEPT ![i] = IF o = "generate_powerbi_url" THEN "url" ELSE "connect"]
    /\ UNCHANGED <<conn, cursor, fetched, locals, out, executed, commits, conns, world>>

Tick ==
    /\ now < MaxClock
    /\ now' = now + 1
    /\ UNCHANGED <<pc, op, args, conn, cursor, fetched, locals, out, executed, commits, conns,
                   agent_output, catalog, usedIds>>

Handler(i) ==
    \/ execute_sql_query(i)
    \/ get_table_schema(i)
    \/ list_tables(i)
    \/ get_database_info(i)
    \/ get_table_row_count(i)
    \/ get_primary_keys(i)
    \/ get_distinct_values(i)
    \/ get_table_relationships(i)
    \/ insert_agent_output_batch(i)
    \/ generate_powerbi_url(i)

Init ==
    /\ pc = [i \in Invocations |-> "idle"]
    /\ op = [i \in Invocations |-> "none"]
    /\ args = [i \in Invocations |-> [none |-> TRUE]]
    /\ conn = [i \in Invocations |-> 0]
    /\ cursor = [i \in Invocations |-> NoResultSet]
    /\ fetched = [i \in Invocations |-> <<>>]
    /\ run_id = [i \in Invocations |-> <<>>]
    /\ created_at = [i \in Invocations |-> -1]
    /\ rows_inserted = [i \in Invocations |-> 0]
    /\ ret = [i \in Invocations |-> NoReturn]
    /\ failure = [i \in Invocations |-> "none"]
    /\ executed = [i \in Invocations |-> <<>>]
    /\ commits = [i \in Invocations |-> 0]
    /\ conns = <<>>
    /\ agent_output = <<>>
    /\ catalog \in Catalogs
    /\ usedIds = {}
    /\ now = 0

\* any tool with any arguments
Dispatch(i) ==
    /\ pc[i] = "idle"
    /\ \E o \in Tools : \E a \in ArgsOf(o) : Invoke(i, o, a)

\* one invocation of one tool
Next ==
    \/ Dispatch(1)
    \/ Handler(1)
    \/ Tick

Spec == Init /\ [][Next]_vars

\* concurrent invocations of two database tools
ConcTools == {"insert_agent_output_batch", "get_table_row_count"}
ConcInsertArgs == {a \in InsertArgs : \A k \in 1..Len(a.results) : a.results[k] = [x_value |-> "CA"]}
ConcArgsOf(o) == IF o = "insert_agent_output_batch" THEN ConcInsertArgs ELSE {[table_name |-> T]}

DispatchConc(i) ==
    /\ pc[i] = "idle"
    /\ \E o \in ConcTools : \E a \in ConcArgsOf(o) : Invoke(i, o, a)

NextConc ==
    \/ \E i \in Invocations : DispatchConc(i)
    \/ \E i \in Invocations : get_table_row_count(i)
    \/ \E i \in Invocations : insert_agent_output_batch(i)
    \/ Tick

SpecConc == Init /\ [][NextConc]_vars

\* ------------------------------------------------------------------ reading a URL
\* position of the first ch in s at or after k, Len(s) + 1 when there is none
RECURSIVE Find(_, _, _)
Find(s, ch, k) ==
    IF k > Len(s) THEN Len(s) + 1
    ELSE IF s[k] = ch THEN k ELSE Find(s, ch, k + 1)

\* the query component: after the first "?", up to a "#"
QueryString(url) ==
    LET q == Find(url, "?", 1)
    IN SubSeq(url, q + 1, Find(url, "#", q + 1) - 1)

\* the query split at "&"
RECURSIVE Split(_)
Split(s) ==
    LET k == Find(s, "&", 1)
    IN IF k > Len(s) THEN <<s>>
       ELSE <<SubSeq(s, 1, k - 1)>> \o Split(SubSeq(s, k + 1, Len(s)))

StartsWith(s, p) == Len(s) >= Len(p) /\ SubSeq(s, 1, Len(p)) = p

\* the raw value of the first parameter called name, <<>> when there is none
ParamValue(url, name) ==
    LET ps == Split(QueryString(url))
        key == name \o <<"=">>
        hits == {k \in 1..Len(ps) : StartsWith(ps[k], key)}
    IN IF hits = {} THEN <<>>
       ELSE LET k == CHOOSE m \in hits : \A n \in hits : m <= n
            IN SubSeq(ps[k], Len(key) + 1, Len(ps[k]))

HexDigit ==
    [d \in {"0", "1", "2", "3", "4", "5", "6", "7", "8", "9", "a", "A"} |->
        CASE d = "0" -> 0 [] d = "1" -> 1 [] d = "2" -> 2 [] d = "3" -> 3 [] d = "4" -> 4
          [] d = "5" -> 5 [] d = "6" -> 6 [] d = "7" -> 7 [] d = "8" -> 8 [] d = "9" -> 9
          [] OTHER -> 10]

\* the character with a code, for the codes the model's texts can spell
Chr(n) ==
    CASE n = 32 -> " " [] n = 37 -> "%" [] n = 38 -> "&" [] n = 39 -> "'"
      [] n = 65 -> "A" [] n = 68 -> "D" [] n = 74 -> "J" [] OTHER -> "?"

\* percent-decoding: %XY with two hex digits is one character, anything else
\* stands for itself
RECURSIVE UrlDecode(_)
UrlDecode(s) ==
    IF s = <<>> THEN <<>>
    ELSE IF s[1] = "%" /\ Len(s) >= 3 /\ s[2] \in DOMAIN HexDigit /\ s[3] \in DOMAIN HexDigit
         THEN <<Chr(16 * HexDigit[s[2]] + HexDigit[s[3]])>> \o UrlDecode(SubSeq(s, 4, Len(s)))
         ELSE <<s[1]>> \o UrlDecode(Tail(s))

FilterExpression(rid) == <<"a", "g", "e", "n", "t", "_", "o", "u", "t", "p", "u", "t", "/", "r",
      "u", "n", "_", "i", "d", " ", "e", "q", " ", "'">> \o rid \o <<"'">>

ReportPath ==
    <<"h", "t", "t", "p", "s", ":", "/", "/", "a", "p", "p", ".", "p", "o",
      "w", "e", "r", "b", "i", ".", "c", "o", "m", "/", "g", "r", "o", "u",
      "p", "s", "/">> \o WORKSPACE_ID
    \o <<"/", "r", "e", "p", "o", "r", "t", "s", "/">> \o REPORT_ID

\* ------------------------------------------------------------------ claims
Ended(i) == pc[i] \in {"done", "raised"}
IsInsert(i) == op[i] = "insert_agent_output_batch"
IdentifierTools ==
    {"get_table_schema", "get_primary_keys", "get_table_row_count", "get_distinct_values"}

\* the characters of [A-Za-z0-9_] that the model's texts use
IdentChars == {"T", "E", "M", "a", "o", "c", "z", "_", "A", "4", "1"}

\* the identifier rule of the sanitization requirement
ValidIdentifier(name) == \A k \in 1..Len(name) : name[k] \in IdentChars

\* rows of agent_output carrying a run_id
RECURSIVE RowsOfRun(_, _)
RowsOfRun(rows, rid) ==
    IF rows = <<>> THEN <<>>
    ELSE (IF Head(rows).run_id = rid THEN <<Head(rows)>> ELSE <<>>) \o RowsOfRun(Tail(rows), rid)

\* C1: in every invocation that acquired a connection, on every exit path
\* (return or exception), the connection has been closed exactly once when the
\* invocation ends.
C1_ClosedExactlyOnce ==
    \A i \in Invocations :
        (Ended(i) /\ conn[i] # 0) =>
            (conns[conn[i]].closes = 1 /\ ~conns[conn[i]].open)

\* C2: when the insert of row k fails, none of the k-1 rows inserted before it
\* in that invocation is committed in agent_output, and the caller gets an
\* error, not a success string.
C2_BatchAtomic ==
    \A i \in Invocations :
        (IsInsert(i) /\ failure[i] = "execute") =>
            /\ RowsOfRun(agent_output, run_id[i]) = <<>>
            /\ ret[i].kind = "raise"
            /\ pc[i] = "raised"

C2_Witness ==
    \E i \in Invocations :
        /\ IsInsert(i) /\ failure[i] = "execute"
        /\ rows_inserted[i] = 1 /\ Len(args[i].results) = 2

\* C3: when every insert of an invocation with N rows has succeeded, N rows
\* have been written on its connection, all with the run_id and the created_at
\* generated once for the invocation; after the normal return exactly these N
\* rows are in agent_output, the returned count is N and the returned run_id is
\* the one in the rows.
C3_OneRunIdOneTimestamp ==
    \A i \in Invocations :
        IsInsert(i) =>
            LET n == Len(args[i].results)
                uniform(rows) ==
                    /\ Len(rows) = n
                    /\ \A k \in 1..Len(rows) :
                          /\ rows[k].run_id = run_id[i]
                          /\ rows[k].created_at = created_at[i]
                          /\ rows[k].created_at = rows[1].created_at
                          /\ rows[k].x_value = Get(args[i].results[k], "x_value")
            IN /\ pc[i] = "commit" => uniform(conns[conn[i]].pending)
               /\ pc[i] = "done" =>
                     /\ uniform(RowsOfRun(agent_output, run_id[i]))
                     /\ ret[i].value.count = n
                     /\ ret[i].value.run_id = run_id[i]
                     /\ run_id[i] \in RunIds

C3_Witness ==
    \E i \in Invocations :
        /\ IsInsert(i) /\ pc[i] = "done"
        /\ Len(args[i].results) = 2
        /\ Len(agent_output) = 2
        /\ now > created_at[i]

\* C4: an identifier argument with a character outside [A-Za-z0-9_] makes the
\* invocation fail with ValidationError before any statement is executed.
C4_IdentifiersSanitized ==
    \A i \in Invocations :
        (/\ op[i] \in IdentifierTools
         /\ \/ ~ValidIdentifier(args[i].table_name)
            \/ op[i] = "get_distinct_values" /\ ~ValidIdentifier(args[i].column_name)) =>
            /\ executed[i] = <<>>
            /\ Ended(i) => ret[i] = Raised("ValidationError")

\* C5: for a table name that is not in the catalog, each of the four table
\* tools returns its not-found message normally; it does not raise because the
\* database rejects the statement.
C5_MissingTableNotFound ==
    \A i \in Invocations :
        (/\ op[i] \in IdentifierTools
         /\ ValidIdentifier(args[i].table_name)
         /\ args[i].table_name \notin catalog
         /\ Ended(i)
         /\ ret[i] # Raised("OperationalError")) =>
            ret[i].kind = "return"

\* C6: a failed driver call (connect, cursor, execute, fetch, commit) ends the
\* invocation with an exception and never with a returned string; nothing is
\* retried, so a reading handler executes at most one statement and the insert
\* tool at most one per row; a successful execution with an empty row set
\* returns the handler's none-found string.
C6_FailuresPropagate ==
    \A i \in Invocations :
        /\ failure[i] # "none" =>
              /\ pc[i] = "raised"
              /\ ret[i].kind = "raise"
              /\ ret[i].error \in {"OperationalError", "ProgrammingError", "IntegrityError"}
        /\ op[i] \in ReadOps => Len(executed[i]) <= 1
        /\ IsInsert(i) =>
              /\ rows_inserted[i] <= Len(executed[i])
              /\ Len(executed[i]) <= rows_inserted[i] + 1
              /\ Len(executed[i]) = rows_inserted[i] + 1 => failure[i] = "execute"
              /\ commits[i] <= 1
        /\ (/\ op[i] \in ReadOps /\ Ended(i) /\ failure[i] = "none"
            /\ cursor[i].rows = <<>>) =>
              ret[i] = [kind |-> "return", value |-> NoneFound(op[i], args[i])]

C6_Witness ==
    \E i \in Invocations :
        /\ op[i] = "get_database_info"
        /\ failure[i] = "fetch"
        /\ Len(executed[i]) = 1

\* C7: the pageName of the URL is the table's page for linea, barras,
\* barras_agrupadas and pie, and the default page for every other visual_hint;
\* the URL is built from the configured identifiers and the arguments alone,
\* and no connection is opened or statement executed.
C7_PageSelection ==
    \A i \in Invocations :
        (op[i] = "generate_powerbi_url" /\ pc[i] = "done") =>
            LET v == args[i].visual_hint
                url == ret[i].value
                page == ParamValue(url, <<"p", "a", "g", "e", "N", "a", "m", "e">>)
            IN /\ v = "linea" => page = Line
               /\ v = "barras" => page = Bar
               /\ v = "barras_agrupadas" => page = StackedBar
               /\ v = "pie" => page = PieChart
               /\ v \notin {"linea", "barras", "barras_agrupadas", "pie"} =>
                     page = ReportSectionBarras
               /\ SubSeq(url, 1, Find(url, "?", 1) - 1) = ReportPath
               /\ ret[i].kind = "return"
               /\ conn[i] = 0 /\ conns = <<>> /\ executed[i] = <<>>

C7_Witness ==
    \E i \in Invocations :
        /\ op[i] = "generate_powerbi_url" /\ pc[i] = "done"
        /\ args[i].visual_hint = "bar"
        /\ ParamValue(ret[i].value, <<"p", "a", "g", "e", "N", "a", "m", "e">>) = ReportSectionBarras

\* C8: the filter value of the URL holds no raw space, and URL-decoding it
\* gives back  agent_output/run_id eq '<run_id>'  with the run_id unchanged.
C8_FilterRoundTrip ==
    \A i \in Invocations :
        (op[i] = "generate_powerbi_url" /\ pc[i] = "done") =>
            LET raw == ParamValue(ret[i].value, <<"f", "i", "l", "t", "e", "r">>)
            IN /\ \A k \in 1..Len(raw) : raw[k] # " "
               /\ UrlDecode(raw) = FilterExpression(args[i].run_id)

\* C9: concurrent invocations never share a connection, every row an
\* invocation writes carries its own run_id, two inserts have distinct
\* run_ids, and what an invocation returns is decided by its own arguments and
\* the database contents: the insert count is the number of its own rows, the
\* row count is that of the table asked for.
C9_Independent ==
    /\ \A i, j \in Invocations :
          i # j =>
             /\ (conn[i] # 0 /\ conn[j] # 0) => conn[i] # conn[j]
             /\ (run_id[i] # <<>> /\ run_id[j] # <<>>) => run_id[i] # run_id[j]
    /\ \A i \in Invocations :
          /\ conn[i] # 0 =>
                /\ conns[conn[i]].owner = i
                /\ \A k \in 1..Len(conns[conn[i]].pending) :
                      conns[conn[i]].pending[k].run_id = run_id[i]
                /\ IsInsert(i) /\ pc[i] \in {"loop", "commit"} =>
                      Len(conns[conn[i]].pending) = rows_inserted[i]
          /\ (IsInsert(i) /\ pc[i] = "done") =>
                /\ ret[i].value.count = Len(args[i].results)
                /\ Len(RowsOfRun(agent_output, run_id[i])) = ret[i].value.count
          /\ (IsInsert(i) /\ commits[i] = 0) => RowsOfRun(agent_output, run_id[i]) = <<>>
          /\ (op[i] = "get_table_row_count" /\ pc[i] = "done") =>
                ret[i].value = [text |-> "Table has rows", table |-> args[i].table_name,
                                rows |-> Len(RowsOf(args[i].table_name))]

C9_Witness ==
    /\ IsInsert(1) /\ IsInsert(2)
    /\ pc[1] = "commit" /\ pc[2] = "commit"
    /\ rows_inserted[1] = 2 /\ rows_inserted[2] = 1

\* C10 as stated, read for the invocations that obtained their connection and
\* cursor: every such invocation of the insert tool issues commit exactly once.
C10_CommitInEveryInvocation ==
    \A i \in Invocations :
        (IsInsert(i) /\ Ended(i) /\ failure[i] \notin {"connect", "cursor"}) =>
            commits[i] = 1

\* C10 amended: commit is issued at most once and only after one insert per
\* input row has been executed, in input order, none of them failing; no commit
\* is issued between rows; when connect, cursor creation or an insert raises no
\* commit is issued; an invocation that returns has issued exactly one commit,
\* also for an empty results list, where the returned count is 0.
C10_CommitOnceAfterAllRows ==
    \A i \in Invocations :
        IsInsert(i) =>
            LET n == Len(args[i].results)
            IN /\ commits[i] <= 1
               /\ commits[i] = 1 =>
                     /\ rows_inserted[i] = n
                     /\ Len(executed[i]) = n
                     /\ \A k \in 1..n :
                           executed[i][k].params =
                               InsertParams(args[i], args[i].results[k], run_id[i],
                                            created_at[i])
               /\ pc[i] = "loop" => commits[i] = 0
               /\ failure[i] \in {"connect", "cursor", "execute"} => commits[i] = 0
               /\ pc[i] = "done" =>
                     /\ commits[i] = 1
                     /\ ret[i].value.count = n

C10_Witness ==
    \E i \in Invocations :
        /\ IsInsert(i) /\ pc[i] = "done"
        /\ commits[i] = 1 /\ Len(args[i].results) = 2

====
